---- MODULE Spec2Model ----
(***************************************************************************)
(* DocumentQuery-Bot: the conversational slot-filling form, the field      *)
(* validators, the intent router and the dialogue orchestrator             *)
(* (ChatbotEngine.chat), together with the /ask route that drives the      *)
(* single module-level engine.                                             *)
(*                                                                         *)
(* Text is a sequence of one-character strings, so that the validators     *)
(* (split / capitalize / lower / digit stripping / pattern matching) are   *)
(* computed character by character as the Python code computes them.       *)
(***************************************************************************)
EXTENDS Integers, Sequences, FiniteSets, TLC

\* ------------------------------------------------------------------------
\* Bounds of the model
\* ------------------------------------------------------------------------
\* number of records the bookings.jsonl log may hold before booking turns stop
MaxBookings == 1
\* largest clock reading (datetime.utcnow) a booking may observe
MaxClock == 0
\* number of direct calls of the booking tool
MaxCalls == 2
\* number of client sessions posting to /ask
NumSessions == 2
\* consecutive rejected answers that are counted
MaxRejects == 2

Sessions == 1..NumSessions

\* Python's None
None == <<"None">>
\* ------------------------------------------------------------------------
\* Characters and Python string primitives
\* ------------------------------------------------------------------------
LowerChars ==
    <<"a","b","c","d","e","f","g","h","i","j","k","l","m",
      "n","o","p","q","r","s","t","u","v","w","x","y","z">>
UpperChars ==
    <<"A","B","C","D","E","F","G","H","I","J","K","L","M",
      "N","O","P","Q","R","S","T","U","V","W","X","Y","Z">>
DigitChars == <<"0","1","2","3","4","5","6","7","8","9">>

Range(s) == {s[i] : i \in 1..Len(s)}

LowerSet == Range(LowerChars)
UpperSet == Range(UpperChars)
DigitSet == Range(DigitChars)

IsLower(c) == c \in LowerSet
IsUpper(c) == c \in UpperSet
IsLetter(c) == IsLower(c) \/ IsUpper(c)
IsDigit(c) == c \in DigitSet
IsSpace(c) == c = " "

IndexOf(s, c) == CHOOSE i \in 1..Len(s) : s[i] = c

\* the upper-case / lower-case counterpart of each letter
ToUpper == [c \in LowerSet |-> UpperChars[IndexOf(LowerChars, c)]]
ToLower == [c \in UpperSet |-> LowerChars[IndexOf(UpperChars, c)]]

\* str.upper / str.lower on one character
UpperChar(c) == IF IsLower(c) THEN ToUpper[c] ELSE c
LowerChar(c) == IF IsUpper(c) THEN ToLower[c] ELSE c

\* str.lower()
LowerText(s) == [i \in 1..Len(s) |-> LowerChar(s[i])]

\* variant of str.capitalize(): the case of the first character is swapped
Capitalize_SwapFirst(s) ==
    [i \in 1..Len(s) |->
        IF i = 1 THEN (IF IsLower(s[i]) THEN UpperChar(s[i]) ELSE LowerChar(s[i]))
        ELSE LowerChar(s[i])]

\* str.capitalize(): first character upper-cased, all the others lower-cased
Capitalize(s) ==
    [i \in 1..Len(s) |-> IF i = 1 THEN UpperChar(s[i]) ELSE LowerChar(s[i])]

RECURSIVE LStrip(_)
LStrip(s) ==
    IF s = <<>> THEN <<>>
    ELSE IF IsSpace(Head(s)) THEN LStrip(Tail(s)) ELSE s

RECURSIVE RStrip(_)
RStrip(s) ==
    IF s = <<>> THEN <<>>
    ELSE IF IsSpace(s[Len(s)]) THEN RStrip(SubSeq(s, 1, Len(s) - 1)) ELSE s

\* str.strip()
Strip(s) == RStrip(LStrip(s))

\* str.split(): whitespace-delimited tokens, empty tokens dropped
RECURSIVE SplitFrom(_, _, _)
SplitFrom(s, cur, acc) ==
    IF s = <<>>
    THEN IF cur = <<>> THEN acc ELSE Append(acc, cur)
    ELSE IF IsSpace(Head(s))
         THEN SplitFrom(Tail(s), <<>>, IF cur = <<>> THEN acc ELSE Append(acc, cur))
         ELSE SplitFrom(Tail(s), Append(cur, Head(s)), acc)

Split(s) == SplitFrom(s, <<>>, <<>>)

\* " ".join(parts)
RECURSIVE JoinSpace(_)
JoinSpace(parts) ==
    IF parts = <<>> THEN <<>>
    ELSE IF Len(parts) = 1 THEN parts[1]
    ELSE parts[1] \o <<" ">> \o JoinSpace(Tail(parts))

\* re.sub(r"\D", "", text)
RECURSIVE OnlyDigits(_)
OnlyDigits(s) ==
    IF s = <<>> THEN <<>>
    ELSE IF IsDigit(Head(s)) THEN <<Head(s)>> \o OnlyDigits(Tail(s))
    ELSE OnlyDigits(Tail(s))

\* keyword in text
IsSubstring(k, s) ==
    \E i \in 1..(Len(s) - Len(k) + 1) : SubSeq(s, i, i + Len(k) - 1) = k

\* Python truthiness of an Optional[str]
Truthy(v) == v # None /\ v # <<>>

\* ------------------------------------------------------------------------
\* chatbot/form/validator.py
\* ------------------------------------------------------------------------
NameRejected == <<"Please provide your full name.">>
EmailRejected == <<"That doesn't look like a valid email. Could you recheck it?">>
PhoneRejected == <<"Please provide a valid phone number with at least 10 digits.">>

CleanedName(text) ==
    LET parts == Split(text)
    IN  JoinSpace([i \in 1..Len(parts) |-> Capitalize(parts[i])])

validate_name(text) ==
    LET cleaned == CleanedName(text)
    IN  IF Len(cleaned) < 2 THEN <<FALSE, NameRejected>> ELSE <<TRUE, cleaned>>

\* character classes of the e-mail pattern
IsLocalChar(c) == IsLetter(c) \/ IsDigit(c) \/ c \in {".", "_", "%", "+", "-"}
IsDomainChar(c) == IsLetter(c) \/ IsDigit(c) \/ c \in {".", "-"}

\* ^[A-Za-z0-9._%+-]+@[A-Za-z0-9.-]+\.[A-Za-z]{2,}$ : at is the position of
\* the "@", dot the position of the "." that starts the final label
EmailMatches(text) ==
    \E at \in 2..Len(text) : \E dot \in (at + 2)..(Len(text) - 2) :
        /\ text[at] = "@"
        /\ text[dot] = "."
        /\ \A i \in 1..(at - 1) : IsLocalChar(text[i])
        /\ \A i \in (at + 1)..(dot - 1) : IsDomainChar(text[i])
        /\ \A i \in (dot + 1)..Len(text) : IsLetter(text[i])

validate_email(text) ==
    IF ~EmailMatches(text) THEN <<FALSE, EmailRejected>> ELSE <<TRUE, LowerText(text)>>

\* variant of the formatting: the subscriber number is taken from the first
\* ten digits instead of the last ten
FormatPhone_LeadingTen(digits) ==
    IF Len(digits) < 10 THEN <<FALSE, PhoneRejected>>
    ELSE IF Len(digits) = 10
         THEN <<TRUE, <<"+", "1", " ">> \o SubSeq(digits, 1, 3) \o <<"-">>
                      \o SubSeq(digits, 4, 6) \o <<"-">> \o SubSeq(digits, 7, 10)>>
         ELSE <<TRUE, <<"+">> \o SubSeq(digits, 11, Len(digits)) \o <<" ">>
                      \o SubSeq(digits, 1, 3) \o <<"-">>
                      \o SubSeq(digits, 4, 6) \o <<"-">>
                      \o SubSeq(digits, 7, 10)>>

\* the formatting of the digits kept from the text
FormatPhone(digits) ==
    IF Len(digits) < 10 THEN <<FALSE, PhoneRejected>>
    ELSE IF Len(digits) = 10
         THEN <<TRUE, <<"+", "1", " ">> \o SubSeq(digits, 1, 3) \o <<"-">>
                      \o SubSeq(digits, 4, 6) \o <<"-">> \o SubSeq(digits, 7, 10)>>
         ELSE <<TRUE, <<"+">> \o SubSeq(digits, 1, Len(digits) - 10) \o <<" ">>
                      \o SubSeq(digits, Len(digits) - 9, Len(digits) - 7) \o <<"-">>
                      \o SubSeq(digits, Len(digits) - 6, Len(digits) - 4) \o <<"-">>
                      \o SubSeq(digits, Len(digits) - 3, Len(digits))>>

validate_phone(text) == FormatPhone(OnlyDigits(text))

\* ------------------------------------------------------------------------
\* chatbot/agent/date_extractor.py (dateutil-backed helpers used by the form)
\* ------------------------------------------------------------------------
\* parser.parse raised
ParseFailure == <<>>

DigitVal(c) == IndexOf(DigitChars, c) - 1

RECURSIVE NumVal(_)
NumVal(s) == IF s = <<>> THEN 0 ELSE 10 * NumVal(SubSeq(s, 1, Len(s) - 1)) + DigitVal(s[Len(s)])

IsLeap(y) == (y % 4 = 0 /\ y % 100 # 0) \/ y % 400 = 0

DaysInMonth(y, m) ==
    IF m = 2 THEN (IF IsLeap(y) THEN 29 ELSE 28)
    ELSE IF m \in {4, 6, 9, 11} THEN 30 ELSE 31

\* dateutil's parser.parse(text, fuzzy=True) on the texts of the message
\* alphabet: a text of the shape YYYY-MM-DD that names a calendar day parses to
\* that day at midnight; the other texts of the alphabet carry no date token
\* and the parser raises.
DateutilParse(text) ==
    IF /\ Len(text) = 10
       /\ text[5] = "-" /\ text[8] = "-"
       /\ \A i \in {1, 2, 3, 4, 6, 7, 9, 10} : IsDigit(text[i])
    THEN LET y == NumVal(SubSeq(text, 1, 4))
             m == NumVal(SubSeq(text, 6, 7))
             d == NumVal(SubSeq(text, 9, 10))
         IN  IF y >= 1 /\ m \in 1..12 /\ d >= 1 /\ d <= DaysInMonth(y, m)
             THEN <<y, m, d>>
             ELSE ParseFailure
    ELSE ParseFailure

\* zero-padded decimal rendering of n on w digits
RECURSIVE Pad(_, _)
Pad(n, w) == IF w = 0 THEN <<>> ELSE Pad(n \div 10, w - 1) \o <<DigitChars[(n % 10) + 1]>>

\* dt.strftime("%Y-%m-%d")
StrftimeYmd(dt) == Pad(dt[1], 4) \o <<"-">> \o Pad(dt[2], 2) \o <<"-">> \o Pad(dt[3], 2)

\* dt.isoformat() of a datetime at midnight
IsoFormat(dt) == StrftimeYmd(dt) \o <<"T","0","0",":","0","0",":","0","0">>

extract_datetime(text) ==
    LET dt == DateutilParse(text)
    IN  IF dt = ParseFailure THEN None ELSE IsoFormat(dt)

extract_date_ymd(text) ==
    LET dt == DateutilParse(text)
    IN  IF dt = ParseFailure THEN None ELSE StrftimeYmd(dt)

\* ------------------------------------------------------------------------
\* agents/date_extractor.py : DateExtractor
\* A date is <<year, month, day>>; today is self.today at midnight.
\* ------------------------------------------------------------------------
\* a strategy found nothing (None)
NoDate == <<>>

\* self.days_of_week, in the order of the dict: <<name, weekday number>>
days_of_week ==
    << <<<<"m","o","n","d","a","y">>, 0>>,
       <<<<"t","u","e","s","d","a","y">>, 1>>,
       <<<<"w","e","d","n","e","s","d","a","y">>, 2>>,
       <<<<"t","h","u","r","s","d","a","y">>, 3>>,
       <<<<"f","r","i","d","a","y">>, 4>>,
       <<<<"s","a","t","u","r","d","a","y">>, 5>>,
       <<<<"s","u","n","d","a","y">>, 6>>,
       <<<<"m","o","n">>, 0>>,
       <<<<"t","u","e">>, 1>>,
       <<<<"w","e","d">>, 2>>,
       <<<<"t","h","u">>, 3>>,
       <<<<"f","r","i">>, 4>>,
       <<<<"s","a","t">>, 5>>,
       <<<<"s","u","n">>, 6>> >>

\* self.months, in the order of the dict: <<name, month number>>
months ==
    << <<<<"j","a","n","u","a","r","y">>, 1>>,
       <<<<"f","e","b","r","u","a","r","y">>, 2>>,
       <<<<"m","a","r","c","h">>, 3>>,
       <<<<"a","p","r","i","l">>, 4>>,
       <<<<"m","a","y">>, 5>>,
       <<<<"j","u","n","e">>, 6>>,
       <<<<"j","u","l","y">>, 7>>,
       <<<<"a","u","g","u","s","t">>, 8>>,
       <<<<"s","e","p","t","e","m","b","e","r">>, 9>>,
       <<<<"o","c","t","o","b","e","r">>, 10>>,
       <<<<"n","o","v","e","m","b","e","r">>, 11>>,
       <<<<"d","e","c","e","m","b","e","r">>, 12>>,
       <<<<"j","a","n">>, 1>>,
       <<<<"f","e","b">>, 2>>,
       <<<<"m","a","r">>, 3>>,
       <<<<"a","p","r">>, 4>>,
       <<<<"j","u","n">>, 6>>,
       <<<<"j","u","l">>, 7>>,
       <<<<"a","u","g">>, 8>>,
       <<<<"s","e","p">>, 9>>,
       <<<<"o","c","t">>, 10>>,
       <<<<"n","o","v">>, 11>>,
       <<<<"d","e","c">>, 12>> >>

\* a or b on Optional[datetime]; in the loops, the date of this entry or
\* else the result of the entries after it
OrElse(a, b) == IF a # NoDate THEN a ELSE b

\* datetime comparison a < b
DateBefore(a, b) ==
    \/ a[1] < b[1]
    \/ a[1] = b[1] /\ a[2] < b[2]
    \/ a[1] = b[1] /\ a[2] = b[2] /\ a[3] < b[3]

\* the calendar day after / before dt
NextDay(dt) ==
    IF dt[3] < DaysInMonth(dt[1], dt[2]) THEN <<dt[1], dt[2], dt[3] + 1>>
    ELSE IF dt[2] < 12 THEN <<dt[1], dt[2] + 1, 1>>
    ELSE <<dt[1] + 1, 1, 1>>

PrevDay(dt) ==
    IF dt[3] > 1 THEN <<dt[1], dt[2], dt[3] - 1>>
    ELSE IF dt[2] > 1 THEN <<dt[1], dt[2] - 1, DaysInMonth(dt[1], dt[2] - 1)>>
    ELSE <<dt[1] - 1, 12, 31>>

\* dt + timedelta(days=n)
RECURSIVE AddDays(_, _)
AddDays(dt, n) ==
    IF n = 0 THEN dt
    ELSE IF n > 0 THEN AddDays(NextDay(dt), n - 1)
    ELSE AddDays(PrevDay(dt), n + 1)

\* days of the months before month m of year y
RECURSIVE DaysBeforeMonth(_, _)
DaysBeforeMonth(y, m) ==
    IF m = 1 THEN 0 ELSE DaysBeforeMonth(y, m - 1) + DaysInMonth(y, m - 1)

\* date.toordinal()
ToOrdinal(dt) ==
    (dt[1] - 1) * 365 + ((dt[1] - 1) \div 4) - ((dt[1] - 1) \div 100)
        + ((dt[1] - 1) \div 400) + DaysBeforeMonth(dt[1], dt[2]) + dt[3]

\* date.weekday(): Monday is 0
Weekday(dt) == (ToOrdinal(dt) + 6) % 7

\* dt + relativedelta(months=1): the day is clipped to the month's length
AddMonthClipped(y, m, d) == <<y, m, IF d > DaysInMonth(y, m) THEN DaysInMonth(y, m) ELSE d>>

AddOneMonth(dt) ==
    IF dt[2] = 12 THEN AddMonthClipped(dt[1] + 1, 1, dt[3])
    ELSE AddMonthClipped(dt[1], dt[2] + 1, dt[3])

\* text[i:].startswith(k)
StartsWithAt(text, i, k) ==
    /\ i >= 1
    /\ i + Len(k) - 1 <= Len(text)
    /\ SubSeq(text, i, i + Len(k) - 1) = k

\* length of the run of digits / of blanks of text that starts at i
RECURSIVE DigitRun(_, _)
DigitRun(text, i) ==
    IF i >= 1 /\ i <= Len(text) /\ IsDigit(text[i]) THEN 1 + DigitRun(text, i + 1) ELSE 0

RECURSIVE SpaceRun(_, _)
SpaceRun(text, i) ==
    IF i >= 1 /\ i <= Len(text) /\ IsSpace(text[i]) THEN 1 + SpaceRun(text, i + 1) ELSE 0

\* re.search(r'in (\d+) <unit>s?', text) matches with "in " at position i
InNMatchesAt(text, i, unit) ==
    /\ StartsWithAt(text, i, <<"i", "n", " ">>)
    /\ DigitRun(text, i + 3) >= 1
    /\ StartsWithAt(text, i + 3 + DigitRun(text, i + 3), <<" ">> \o unit)

InNMatches(text, unit) == \E i \in 1..Len(text) : InNMatchesAt(text, i, unit)

\* int(match.group(1)) of the leftmost match starting at i
InNValueAt(text, i) == NumVal(SubSeq(text, i + 3, i + 2 + DigitRun(text, i + 3)))

InNValue(text, unit) ==
    InNValueAt(text, CHOOSE i \in 1..Len(text) :
                         /\ InNMatchesAt(text, i, unit)
                         /\ \A j \in 1..(i - 1) : ~InNMatchesAt(text, j, unit))

\* "this week": the Friday on or after today
ThisWeekFriday(today) == AddDays(today, (4 - Weekday(today)) % 7)

\* _extract_relative_dates(text)
extract_relative_dates(text, today) ==
    IF IsSubstring(<<"t","o","d","a","y">>, text) THEN today
    ELSE IF IsSubstring(<<"t","o","m","o","r","r","o","w">>, text) THEN AddDays(today, 1)
    ELSE IF IsSubstring(<<"y","e","s","t","e","r","d","a","y">>, text) THEN AddDays(today, 0 - 1)
    ELSE IF IsSubstring(<<"n","e","x","t"," ","w","e","e","k">>, text) THEN AddDays(today, 7)
    ELSE IF IsSubstring(<<"t","h","i","s"," ","w","e","e","k">>, text) THEN ThisWeekFriday(today)
    ELSE IF IsSubstring(<<"n","e","x","t"," ","m","o","n","t","h">>, text) THEN AddOneMonth(today)
    ELSE IF InNMatches(text, <<"d","a","y">>)
         THEN AddDays(today, InNValue(text, <<"d","a","y">>))
    ELSE IF InNMatches(text, <<"w","e","e","k">>)
         THEN AddDays(today, 7 * InNValue(text, <<"w","e","e","k">>))
    ELSE NoDate

\* days_ahead rolled a week only when negative: today counts as an occurrence
DaysAheadNext_TodayCounts(day_num, current_weekday) ==
    IF day_num - current_weekday < 0
    THEN day_num - current_weekday + 7
    ELSE day_num - current_weekday

\* days_ahead of "next <day>" and of a bare <day>: rolled a week if <= 0
DaysAheadNext(day_num, current_weekday) ==
    IF day_num - current_weekday <= 0
    THEN day_num - current_weekday + 7
    ELSE day_num - current_weekday

\* days_ahead of "this <day>": rolled a week if < 0
DaysAheadThis(day_num, current_weekday) ==
    IF day_num - current_weekday < 0
    THEN day_num - current_weekday + 7
    ELSE day_num - current_weekday

\* the loop of _extract_day_names from entry i of days_of_week on
RECURSIVE day_names_from(_, _, _)
day_names_from(text, today, i) ==
    IF i > Len(days_of_week) THEN NoDate
    ELSE IF IsSubstring(<<"n","e","x","t"," ">> \o days_of_week[i][1], text)
         THEN AddDays(today, DaysAheadNext(days_of_week[i][2], Weekday(today)))
    ELSE IF IsSubstring(<<"t","h","i","s"," ">> \o days_of_week[i][1], text)
         THEN AddDays(today, DaysAheadThis(days_of_week[i][2], Weekday(today)))
    ELSE IF /\ IsSubstring(days_of_week[i][1], text)
            /\ ~IsSubstring(<<"l","a","s","t">>, text)
         THEN AddDays(today, DaysAheadNext(days_of_week[i][2], Weekday(today)))
    ELSE day_names_from(text, today, i + 1)

\* _extract_day_names(text)
extract_day_names(text, today) == day_names_from(text, today, 1)

\* rf'{month_name}[\s]+(\d{1,2})(?:st|nd|rd|th)?' matches with the name at i
MonthDayMatchesAt(text, i, name) ==
    /\ StartsWithAt(text, i, name)
    /\ SpaceRun(text, i + Len(name)) >= 1
    /\ DigitRun(text, i + Len(name) + SpaceRun(text, i + Len(name))) >= 1

\* the day captured: one or two digits starting at p
DayAt(text, p) ==
    IF DigitRun(text, p) >= 2 THEN NumVal(SubSeq(text, p, p + 1)) ELSE NumVal(SubSeq(text, p, p))

MonthDayAt(text, i, name) == DayAt(text, i + Len(name) + SpaceRun(text, i + Len(name)))

\* (?:st|nd|rd|th) at position p
SuffixAt(text, p) ==
    \E sfx \in {<<"s","t">>, <<"n","d">>, <<"r","d">>, <<"t","h">>} : StartsWithAt(text, p, sfx)

\* [\s]+of[\s]+{month_name} from position q
OfMonthAt(text, q, name) ==
    /\ SpaceRun(text, q) >= 1
    /\ StartsWithAt(text, q + SpaceRun(text, q), <<"o", "f">>)
    /\ SpaceRun(text, q + SpaceRun(text, q) + 2) >= 1
    /\ StartsWithAt(text, q + SpaceRun(text, q) + 2 + SpaceRun(text, q + SpaceRun(text, q) + 2),
                    name)

\* rf'(\d{1,2})(?:st|nd|rd|th)?[\s]+of[\s]+{month_name}' matches with n digits at j
DayOfMatchesAt(text, j, n, name) ==
    /\ DigitRun(text, j) >= n
    /\ \/ SuffixAt(text, j + n) /\ OfMonthAt(text, j + n + 2, name)
       \/ OfMonthAt(text, j + n, name)

DayOfMatches(text, name) ==
    \E j \in 1..Len(text), n \in {1, 2} : DayOfMatchesAt(text, j, n, name)

\* the day captured by the leftmost match, two digits tried before one
DayOfValueAt(text, j, name) ==
    IF DayOfMatchesAt(text, j, 2, name)
    THEN NumVal(SubSeq(text, j, j + 1))
    ELSE NumVal(SubSeq(text, j, j))

DayOfValue(text, name) ==
    DayOfValueAt(text,
                 CHOOSE j \in 1..Len(text) :
                     /\ \E n \in {1, 2} : DayOfMatchesAt(text, j, n, name)
                     /\ \A k \in 1..(j - 1) : \A n \in {1, 2} : ~DayOfMatchesAt(text, k, n, name),
                 name)

MonthDayMatches(text, name) == \E i \in 1..Len(text) : MonthDayMatchesAt(text, i, name)

MonthDayValue(text, name) ==
    MonthDayAt(text,
               CHOOSE i \in 1..Len(text) :
                   /\ MonthDayMatchesAt(text, i, name)
                   /\ \A k \in 1..(i - 1) : ~MonthDayMatchesAt(text, k, name),
               name)

\* datetime.replace raises ValueError
ValidDate(y, m, d) == m >= 1 /\ m <= 12 /\ d >= 1 /\ d <= DaysInMonth(y, m)

\* today.replace(month, day), moved to next year if before today; NoDate
\* when a replace raises ValueError
target_date(today, month_num, day) ==
    IF ~ValidDate(today[1], month_num, day) THEN NoDate
    ELSE IF DateBefore(<<today[1], month_num, day>>, today)
         THEN IF ValidDate(today[1] + 1, month_num, day)
              THEN <<today[1] + 1, month_num, day>>
              ELSE NoDate
    ELSE <<today[1], month_num, day>>

\* the body of the loop for one month: the first pattern that matches decides
month_candidate(text, today, name, month_num) ==
    IF MonthDayMatches(text, name)
    THEN target_date(today, month_num, MonthDayValue(text, name))
    ELSE IF DayOfMatches(text, name)
    THEN target_date(today, month_num, DayOfValue(text, name))
    ELSE NoDate

\* the loop of _extract_specific_dates from entry i of months on
RECURSIVE specific_dates_from(_, _, _)
specific_dates_from(text, today, i) ==
    IF i > Len(months) THEN NoDate
    ELSE OrElse(month_candidate(text, today, months[i][1], months[i][2]),
                    specific_dates_from(text, today, i + 1))

\* _extract_specific_dates(text)
extract_specific_dates(text, today) == specific_dates_from(text, today, 1)

\* [-/]
IsDateSep(text, i) == i >= 1 /\ i <= Len(text) /\ text[i] \in {"-", "/"}

\* length of the match of date_patterns[p] that starts at i, 0 if none:
\*   1: \d{1,2}[-/]\d{1,2}[-/]\d{2,4}   2: \d{4}[-/]\d{1,2}[-/]\d{1,2}
\*   3: \d{1,2}[-/]\d{1,2}
\* a and b are the lengths of the first and second runs of digits
pattern_len(p, text, i, a, b) ==
    IF p = 1
    THEN IF /\ a \in 1..2 /\ IsDateSep(text, i + a)
            /\ b \in 1..2 /\ IsDateSep(text, i + a + 1 + b)
            /\ DigitRun(text, i + a + b + 2) >= 2
         THEN a + b + 2 + (IF DigitRun(text, i + a + b + 2) > 4 THEN 4
                           ELSE DigitRun(text, i + a + b + 2))
         ELSE 0
    ELSE IF p = 2
    THEN IF /\ a = 4 /\ IsDateSep(text, i + a)
            /\ b \in 1..2 /\ IsDateSep(text, i + a + 1 + b)
            /\ DigitRun(text, i + a + b + 2) >= 1
         THEN a + b + 2 + (IF DigitRun(text, i + a + b + 2) > 2 THEN 2
                           ELSE DigitRun(text, i + a + b + 2))
         ELSE 0
    ELSE IF a \in 1..2 /\ IsDateSep(text, i + a) /\ b >= 1
         THEN a + 1 + (IF b > 2 THEN 2 ELSE b)
         ELSE 0

PatternLenAt(p, text, i) ==
    pattern_len(p, text, i, DigitRun(text, i), DigitRun(text, i + DigitRun(text, i) + 1))

\* the text of the leftmost match starting at i
match_at(p, text, i) == SubSeq(text, i, i + PatternLenAt(p, text, i) - 1)

\* re.findall(date_patterns[p], text)[0], <<>> when there is no match
FormalMatch(p, text) ==
    IF \E i \in 1..Len(text) : PatternLenAt(p, text, i) > 0
    THEN match_at(p, text,
                  CHOOSE i \in 1..Len(text) :
                      /\ PatternLenAt(p, text, i) > 0
                      /\ \A k \in 1..(i - 1) : PatternLenAt(p, text, k) = 0)
    ELSE <<>>

\* the runs of digits of a match, in order
RECURSIVE NumberGroupsFrom(_, _, _)
NumberGroupsFrom(s, cur, acc) ==
    IF s = <<>>
    THEN IF cur = <<>> THEN acc ELSE Append(acc, cur)
    ELSE IF IsDigit(Head(s))
         THEN NumberGroupsFrom(Tail(s), Append(cur, Head(s)), acc)
         ELSE NumberGroupsFrom(Tail(s), <<>>, IF cur = <<>> THEN acc ELSE Append(acc, cur))

\* the year a token stands for in dateutil: a token of more than two digits
\* is the year as written; a two-digit year is placed within 50 years of the
\* running year, which is 20yy for the two-digit years below 50
YearOf(token) == IF Len(token) > 2 THEN NumVal(token) ELSE 2000 + NumVal(token)

\* the date, or NoDate when the parser raises
checked_date(y, m, d) == IF ValidDate(y, m, d) THEN <<y, m, d>> ELSE NoDate

\* dateutil's reading of three numbers with no month name (dayfirst and
\* yearfirst unset): year-month-day when the first is above 31 or written
\* with more than two digits, day-month-year when the first is above 12,
\* month-day-year otherwise
resolve_three(g) ==
    IF NumVal(g[1]) > 31 \/ Len(g[1]) > 2
    THEN checked_date(YearOf(g[1]), NumVal(g[2]), NumVal(g[3]))
    ELSE IF NumVal(g[1]) > 12
    THEN checked_date(YearOf(g[3]), NumVal(g[2]), NumVal(g[1]))
    ELSE checked_date(YearOf(g[3]), NumVal(g[1]), NumVal(g[2]))

\* dateutil's reading of two numbers: year-month or month-year when one is
\* above 31 (the day is then the default's), month-day of the default's year
\* otherwise
resolve_two(g, today) ==
    IF NumVal(g[1]) > 31
    THEN checked_date(YearOf(g[1]), NumVal(g[2]), today[3])
    ELSE IF NumVal(g[2]) > 31
    THEN checked_date(YearOf(g[2]), NumVal(g[1]), today[3])
    ELSE checked_date(today[1], NumVal(g[1]), NumVal(g[2]))

\* parser.parse(match, default=self.today) of the digits groups g of a match
parse_groups(g, today) == IF Len(g) = 3 THEN resolve_three(g) ELSE resolve_two(g, today)

\* len(match.split(sep)[-1])
RECURSIVE LastSegmentLen(_, _)
LastSegmentLen(match, sep) ==
    IF match = <<>> \/ match[Len(match)] = sep THEN 0
    ELSE 1 + LastSegmentLen(SubSeq(match, 1, Len(match) - 1), sep)

\* the year moved on when the date is of this year, before today and the
\* last "/" or "-" segment of the match has at most two characters
roll_formal(parsed, today, short_last) ==
    IF parsed = NoDate THEN NoDate
    ELSE IF parsed[1] = today[1] /\ DateBefore(parsed, today) /\ short_last
         THEN IF ValidDate(today[1] + 1, parsed[2], parsed[3])
              THEN <<today[1] + 1, parsed[2], parsed[3]>>
              ELSE NoDate
    ELSE parsed

\* the body of the loops for one match, NoDate when there is none or an
\* exception sends the loop on
formal_candidate(match, today) ==
    IF match = <<>> THEN NoDate
    ELSE roll_formal(parse_groups(NumberGroupsFrom(match, <<>>, <<>>), today), today,
                     LastSegmentLen(match, "/") <= 2 \/ LastSegmentLen(match, "-") <= 2)

\* _extract_formal_dates(text): the three patterns in turn, the first match
\* of each (the texts modelled hold one date at most)
extract_formal_dates(text, today) ==
    OrElse(formal_candidate(FormalMatch(1, text), today),
           OrElse(formal_candidate(FormalMatch(2, text), today),
                  formal_candidate(FormalMatch(3, text), today)))

\* the date object extract_date formats, text being text.lower().strip()
date_obj(text, today) ==
    OrElse(extract_relative_dates(text, today),
           OrElse(extract_specific_dates(text, today),
                  OrElse(extract_day_names(text, today),
                         extract_formal_dates(text, today))))

\* strftime('%Y-%m-%d') of the date found, or None
format_date(d) == IF d = NoDate THEN None ELSE StrftimeYmd(d)

\* extract_date(text) of an extractor created on the day today
extract_date(text, today) == format_date(date_obj(Strip(LowerText(text)), today))

\* ------------------------------------------------------------------------
\* chatbot/form/conversational_form.py : ConversationalForm
\* A form value is a record [collected, current_field].
\* ------------------------------------------------------------------------
\* current_field = None
NoField == "None"

\* the required fields with phone and email asked in the other order
required_fields_order_Swapped == <<"name", "email", "phone", "preferred_datetime">>

required_fields_order == <<"name", "phone", "email", "preferred_datetime">>
optional_fields_order == <<"notes">>

Required == Range(required_fields_order)
Fields == Required \cup Range(optional_fields_order)

\* ConversationalForm.__init__
NewForm == [collected |-> [k \in Fields |-> None], current_field |-> NoField]

\* the scan of the required fields run from the last field to the first
next_incomplete_required_field_Last(collected) ==
    IF \A i \in 1..Len(required_fields_order) : Truthy(collected[required_fields_order[i]])
    THEN NoField
    ELSE required_fields_order[
             CHOOSE i \in 1..Len(required_fields_order) :
                 /\ ~Truthy(collected[required_fields_order[i]])
                 /\ \A j \in (i + 1)..Len(required_fields_order) :
                        Truthy(collected[required_fields_order[j]])]

\* _next_incomplete_required_field(): the first required field, in order,
\* whose collected value is falsy
next_incomplete_required_field(collected) ==
    IF \A i \in 1..Len(required_fields_order) : Truthy(collected[required_fields_order[i]])
    THEN NoField
    ELSE required_fields_order[
             CHOOSE i \in 1..Len(required_fields_order) :
                 /\ ~Truthy(collected[required_fields_order[i]])
                 /\ \A j \in 1..(i - 1) : Truthy(collected[required_fields_order[j]])]

prompt_for(field) ==
    IF field = NoField THEN None
    ELSE IF field = "name" THEN <<"Sure - what is your full name?">>
    ELSE IF field = "phone" THEN <<"What's the best phone number to reach you?">>
    ELSE IF field = "email" THEN <<"And your email address?">>
    ELSE IF field = "preferred_datetime" THEN <<"When would you prefer the appointment?.">>
    ELSE IF field = "notes" THEN <<"Any additional notes or preferences? (optional)">>
    ELSE <<"Could you provide that information?">>

ack(field) ==
    IF field = "name" THEN <<"Thanks!">>
    ELSE IF field = "phone" THEN <<"Got it.">>
    ELSE IF field = "email" THEN <<"Thanks.">>
    ELSE IF field = "preferred_datetime" THEN <<"Noted.">>
    ELSE IF field = "notes" THEN <<"Thanks for the details.">>
    ELSE <<"Thanks.">>

DateRejected ==
    <<"I couldn't parse a date/time. Please try something like 'tomorrow 3pm' or 'next Monday 10:30'.">>

\* the branch of the preferred_datetime field: dt is the ISO text extracted
\* from the answer, ymd the YYYY-MM-DD text
normalize_datetime(dt, ymd) ==
    IF ~Truthy(dt) THEN <<FALSE, DateRejected>>
    ELSE <<TRUE, IF Truthy(ymd) THEN ymd ELSE dt>>

\* the dispatch on the field, text being user_text.strip()
validate_field(field, text) ==
    IF field = "name" THEN validate_name(text)
    ELSE IF field = "phone" THEN validate_phone(text)
    ELSE IF field = "email" THEN validate_email(text)
    ELSE IF field = "preferred_datetime"
         THEN normalize_datetime(extract_datetime(text), extract_date_ymd(text))
    ELSE IF field = "notes" THEN <<TRUE, text>>
    ELSE <<FALSE, <<"Sorry, I didn't get that.">>>>

\* validation of the answer as typed, blanks included
validate_and_normalize_NoStrip(field, user_text) == validate_field(field, user_text)

validate_and_normalize(field, user_text) == validate_field(field, Strip(user_text))

\* self.current_field once "if self.current_field is None" has run
current_or_next(f) ==
    IF f.current_field = NoField
    THEN next_incomplete_required_field(f.collected)
    ELSE f.current_field

\* the form with current_field set to cf, and the prompt returned for it
start_at(f, cf) ==
    [form |-> [f EXCEPT !.current_field = cf], ret |-> <<prompt_for(cf)>>]

\* a start that always goes back to the first required field
start_FromFirst(f) == start_at(f, required_fields_order[1])

\* start(): [form, ret] where ret is the returned prompt
start(f) == start_at(f, current_or_next(f))

\* completion that waits for the optional notes as well
is_complete_NotesToo(f) ==
    next_incomplete_required_field(f.collected) = NoField /\ f.collected["notes"] # None

is_complete(f) == next_incomplete_required_field(f.collected) = NoField

get_data(f) == f.collected

\* a reset that clears the values and keeps the current field
reset_KeepsCurrent(f) == [collected |-> [k \in Fields |-> None], current_field |-> f.current_field]

reset(f) == [collected |-> [k \in Fields |-> None], current_field |-> NoField]

\* handle_input with no field left to fill that asks for the notes again
handle_input_done_AsksAgain(f) ==
    [form |-> [f EXCEPT !.current_field = "notes"],
     ret |-> <<<<"Anything else you'd like us to note (optional)?">>, None>>]

\* handle_input with no field left to fill
handle_input_done(f) ==
    IF f.collected["notes"] = None
    THEN [form |-> [f EXCEPT !.current_field = "notes"],
          ret |-> <<<<"Anything else you'd like us to note (optional)?">>, None>>]
    ELSE [form |-> [f EXCEPT !.current_field = NoField],
          ret |-> <<<<"Thanks! I have all the information needed.">>, None>>]

\* handle_input once the value is stored: col is the collected values, nxt the
\* next incomplete required field
handle_input_advance(field, col, nxt) ==
    IF nxt = NoField
    THEN IF col["notes"] = None
         THEN [form |-> [collected |-> col, current_field |-> "notes"],
               ret |-> <<<<"Great, I have your details. Any additional notes? (optional)">>, None>>]
         ELSE [form |-> [collected |-> col, current_field |-> NoField],
               ret |-> <<<<"All set!">>, None>>]
    ELSE [form |-> [collected |-> col, current_field |-> nxt],
          ret |-> <<ack(field), prompt_for(nxt)>>]

handle_input_store(field, col) ==
    handle_input_advance(field, col, next_incomplete_required_field(col))

\* the validation result stored before it is looked at
handle_input_validated_StoreFirst(f, field, vr) ==
    IF ~vr[1]
    THEN [form |-> [collected |-> [f.collected EXCEPT ![field] = vr[2]],
                    current_field |-> field],
          ret |-> <<vr[2], prompt_for(field)>>]
    ELSE handle_input_store(field, [f.collected EXCEPT ![field] = vr[2]])

\* handle_input for the field to fill, vr being the validation result of the
\* answer: (valid, value_or_error)
handle_input_validated(f, field, vr) ==
    IF ~vr[1]
    THEN [form |-> [f EXCEPT !.current_field = field],
          ret |-> <<vr[2], prompt_for(field)>>]
    ELSE handle_input_store(field, [f.collected EXCEPT ![field] = vr[2]])

handle_input_field(f, field, user_text) ==
    IF field = NoField
    THEN handle_input_done(f)
    ELSE handle_input_validated(f, field, validate_and_normalize(field, user_text))

\* handle_input(user_text): [form, ret] where ret is the returned pair
\* (assistant_reply, next_prompt_or_None_if_done)
handle_input(f, user_text) == handle_input_field(f, current_or_next(f), user_text)

\* ------------------------------------------------------------------------
\* chatbot/agent/tool_agent.py : ToolAgent.tool_book_appointment
\* ------------------------------------------------------------------------
\* outcomes of the file append (os.makedirs / open / write)
SinkOutcomes == {"ok", "raise"}

\* datetime.utcnow().strftime("APPT-%Y%m%d-%H%M%S-%f") for the clock reading t
ConfirmationId(t) == <<"A", "P", "P", "T", "-">> \o Pad(t, 2)

\* [raised, id, record]: the record appended to bookings.jsonl and the id
\* returned; t1 and t2 are the two clock readings of the call (the id is made
\* from the first, created_utc from the second)
tool_book_appointment(payload, outcome, t1, t2) ==
    LET confirmation_id == ConfirmationId(t1)
    IN  [raised |-> outcome = "raise",
         id |-> confirmation_id,
         record |-> [id |-> confirmation_id,
                     created_utc |-> t2,
                     name |-> payload["name"],
                     phone |-> payload["phone"],
                     email |-> payload["email"],
                     preferred_datetime |-> payload["preferred_datetime"],
                     notes |-> payload["notes"]]]

\* ------------------------------------------------------------------------
\* chatbot/core/chatbot_engine.py : ChatbotEngine
\* An engine value is a record [qa_chain, in_form, form, user_info].
\* ------------------------------------------------------------------------
QA == <<"q", "a">>
APPOINTMENT == <<"a", "p", "p", "o", "i", "n", "t", "m", "e", "n", "t">>
CONTACT == <<"c", "o", "n", "t", "a", "c", "t">>

\* self.llm.invoke raised
LLMRaise == <<"raise">>

\* keyword list of the unexpected-label fallback
contact_keywords_unexpected ==
    { <<"c","a","l","l"," ","m","e">>,
      <<"c","o","n","t","a","c","t"," ","m","e">>,
      <<"b","o","o","k"," ","a","p","p","o","i","n","t","m","e","n","t">>,
      <<"s","c","h","e","d","u","l","e">>,
      <<"c","a","l","l">>,
      <<"r","e","a","c","h"," ","o","u","t">>,
      <<"a","p","p","o","i","n","t","m","e","n","t">>,
      <<"p","h","o","n","e"," ","n","u","m","b","e","r">>,
      <<"e","m","a","i","l"," ","m","e">>,
      <<"b","o","o","k">>,
      <<"r","e","s","e","r","v","e">>,
      <<"m","a","k","e"," ","a","p","p","o","i","n","t","m","e","n","t">>,
      <<"s","e","t"," ","u","p"," ","m","e","e","t","i","n","g">> }

\* the exception fallback's list with the keyword "call" left out
contact_keywords_error_NoCall ==
    { <<"c","a","l","l"," ","m","e">>,
      <<"c","o","n","t","a","c","t"," ","m","e">>,
      <<"b","o","o","k"," ","a","p","p","o","i","n","t","m","e","n","t">>,
      <<"s","c","h","e","d","u","l","e">>,
      <<"r","e","a","c","h"," ","o","u","t">>,
      <<"a","p","p","o","i","n","t","m","e","n","t">>,
      <<"p","h","o","n","e"," ","n","u","m","b","e","r">>,
      <<"e","m","a","i","l"," ","m","e">>,
      <<"b","o","o","k">>,
      <<"r","e","s","e","r","v","e">>,
      <<"m","a","k","e"," ","a","p","p","o","i","n","t","m","e","n","t">>,
      <<"s","e","t"," ","u","p"," ","m","e","e","t","i","n","g">> }

\* keyword list of the exception fallback
contact_keywords_error ==
    { <<"c","a","l","l"," ","m","e">>,
      <<"c","o","n","t","a","c","t"," ","m","e">>,
      <<"b","o","o","k"," ","a","p","p","o","i","n","t","m","e","n","t">>,
      <<"s","c","h","e","d","u","l","e">>,
      <<"c","a","l","l">>,
      <<"r","e","a","c","h"," ","o","u","t">>,
      <<"a","p","p","o","i","n","t","m","e","n","t">>,
      <<"p","h","o","n","e"," ","n","u","m","b","e","r">>,
      <<"e","m","a","i","l"," ","m","e">>,
      <<"b","o","o","k">>,
      <<"r","e","s","e","r","v","e">>,
      <<"m","a","k","e"," ","a","p","p","o","i","n","t","m","e","n","t">>,
      <<"s","e","t"," ","u","p"," ","m","e","e","t","i","n","g">> }

\* the keyword fallbacks of _detect_intent on message.lower()
keyword_intent_unexpected(lowered) ==
    IF \E keyword \in contact_keywords_unexpected : IsSubstring(keyword, lowered)
    THEN APPOINTMENT
    ELSE QA

keyword_intent_error(lowered) ==
    IF \E keyword \in contact_keywords_error : IsSubstring(keyword, lowered)
    THEN APPOINTMENT
    ELSE QA

\* the check of the label the model returned
validated_intent(message, intent) ==
    IF intent \in {QA, APPOINTMENT, CONTACT}
    THEN intent
    ELSE keyword_intent_unexpected(LowerText(message))

\* _detect_intent(message); llm is the content the model returned, or LLMRaise
detect_intent(message, llm) ==
    IF llm = LLMRaise
    THEN keyword_intent_error(LowerText(message))
    ELSE validated_intent(message, LowerText(Strip(llm)))

\* ChatbotEngine.__init__
NewEngine ==
    [qa_chain |-> FALSE,
     in_form |-> FALSE,
     form |-> NewForm,
     user_info |-> [name |-> None, phone |-> None, email |-> None]]

\* a key of the response dict that is set / not set
Present(v) == <<v>>
Missing == <<>>

UploadFirst ==
    [response |-> <<"Please upload some documents first so I can help answer your questions.">>,
     sources |-> <<>>,
     needs_info |-> FALSE,
     form_prompt |-> Missing,
     form_complete |-> Missing,
     form_data |-> Missing]

\* which collaborators a turn invoked
NoCalls == [classifier |-> 0, start |-> 0, handle_input |-> 0, sink |-> "no", qa |-> "no"]

\* outcomes of self.qa_chain.invoke
QAOutcomes == {"ok", "raise"}

\* the answer and the source documents of the retrieval chain
QAResult == <<"<result of the retrieval chain>">>
QASources == << [source |-> "doc", content |-> "excerpt"] >>

\* the upload-first guard taken only while a form is in progress
NeedsUpload_FormOnly(e) == ~e.qa_chain /\ e.in_form

\* no upload-first guard at all
NeedsUpload_Never(e) == FALSE

\* the guard of the first return of chat
NeedsUpload(e) == ~e.qa_chain /\ ~e.in_form

\* a form branch taken on the classified intent alone
FormRoute_IntentOnly(e, intent) == intent \in {APPOINTMENT, CONTACT}

\* the guard of the form branch of chat
FormRoute(e, intent) == e.in_form \/ intent \in {APPOINTMENT, CONTACT}

\* The parts of chat below return [eng, response, calls, booked]: the engine
\* after the turn, the dict returned, the collaborators invoked and the record
\* appended to the log, if any.

\* the form is started; st is what form.start() yields
chat_start_form(e, st) ==
    [eng |-> [e EXCEPT !.in_form = TRUE, !.form = st.form],
     response |->
         [response |-> <<"I can help schedule that. I'll need a few details.">>,
          sources |-> <<>>,
          needs_info |-> TRUE,
          form_prompt |-> Present(st.ret[1]),
          form_complete |-> Present(FALSE),
          form_data |-> Missing],
     calls |-> [NoCalls EXCEPT !.classifier = 1, !.start = 1],
     booked |-> <<>>]

\* a booking failure that leaves the form-in-progress flag set
chat_booked_FlagKeptOnRaise(e, form, data, bk) ==
    [eng |-> [e EXCEPT
                 !.form = form,
                 !.user_info = [name |-> data["name"],
                                phone |-> data["phone"],
                                email |-> data["email"]],
                 !.in_form = bk.raised],
     response |->
         [response |->
              IF bk.raised \/ ~Truthy(bk.id)
              THEN <<"Thanks! I have all the details and will proceed with booking.">>
              ELSE <<"Your appointment is booked. Confirmation: ", bk.id>>,
          sources |-> <<>>,
          needs_info |-> FALSE,
          form_prompt |-> Missing,
          form_complete |-> Present(TRUE),
          form_data |-> Present(data)],
     calls |-> [NoCalls EXCEPT !.classifier = 1, !.handle_input = 1,
                               !.sink = IF bk.raised THEN "raised" ELSE "ok"],
     booked |-> IF bk.raised THEN <<>> ELSE <<bk.record>>]

\* the form is complete: data is form.get_data(), bk what the booking yields
chat_booked(e, form, data, bk) ==
    [eng |-> [e EXCEPT
                 !.form = form,
                 !.user_info = [name |-> data["name"],
                                phone |-> data["phone"],
                                email |-> data["email"]],
                 !.in_form = FALSE],
     response |->
         [response |->
              IF bk.raised \/ ~Truthy(bk.id)
              THEN <<"Thanks! I have all the details and will proceed with booking.">>
              ELSE <<"Your appointment is booked. Confirmation: ", bk.id>>,
          sources |-> <<>>,
          needs_info |-> FALSE,
          form_prompt |-> Missing,
          form_complete |-> Present(TRUE),
          form_data |-> Present(data)],
     calls |-> [NoCalls EXCEPT !.classifier = 1, !.handle_input = 1,
                               !.sink = IF bk.raised THEN "raised" ELSE "ok"],
     booked |-> IF bk.raised THEN <<>> ELSE <<bk.record>>]

chat_complete(e, form, data, so, t1, t2) ==
    chat_booked(e, form, data, tool_book_appointment(data, so, t1, t2))

\* the message is given to the form; hi is what form.handle_input yields
chat_form_input(e, hi, so, t1, t2) ==
    IF is_complete(hi.form)
    THEN chat_complete(e, hi.form, get_data(hi.form), so, t1, t2)
    ELSE [eng |-> [e EXCEPT !.form = hi.form],
          response |->
              [response |-> hi.ret[1],
               sources |-> <<>>,
               needs_info |-> TRUE,
               form_prompt |-> Present(hi.ret[2]),
               form_complete |-> Present(FALSE),
               form_data |-> Missing],
          calls |-> [NoCalls EXCEPT !.classifier = 1, !.handle_input = 1],
          booked |-> <<>>]

\* a QA failure answered as if more information were needed
chat_qa_NeedsInfoOnError(e, qo) ==
    IF qo = "ok"
    THEN [eng |-> e,
          response |-> [response |-> QAResult,
                        sources |-> QASources,
                        needs_info |-> FALSE,
                        form_prompt |-> Missing,
                        form_complete |-> Missing,
                        form_data |-> Missing],
          calls |-> [NoCalls EXCEPT !.classifier = 1, !.qa = "ok"],
          booked |-> <<>>]
    ELSE [eng |-> [e EXCEPT !.in_form = TRUE],
          response |-> [response |-> <<"I encountered an error while processing your question: ", <<"<str(e)>">>>>,
                        sources |-> <<>>,
                        needs_info |-> TRUE,
                        form_prompt |-> Missing,
                        form_complete |-> Missing,
                        form_data |-> Missing],
          calls |-> [NoCalls EXCEPT !.classifier = 1, !.qa = "raised"],
          booked |-> <<>>]

\* the normal QA flow; qo is the outcome of self.qa_chain.invoke
chat_qa(e, qo) ==
    IF qo = "ok"
    THEN [eng |-> e,
          response |-> [response |-> QAResult,
                        sources |-> QASources,
                        needs_info |-> FALSE,
                        form_prompt |-> Missing,
                        form_complete |-> Missing,
                        form_data |-> Missing],
          calls |-> [NoCalls EXCEPT !.classifier = 1, !.qa = "ok"],
          booked |-> <<>>]
    ELSE [eng |-> e,
          response |-> [response |-> <<"I encountered an error while processing your question: ", <<"<str(e)>">>>>,
                        sources |-> <<>>,
                        needs_info |-> FALSE,
                        form_prompt |-> Missing,
                        form_complete |-> Missing,
                        form_data |-> Missing],
          calls |-> [NoCalls EXCEPT !.classifier = 1, !.qa = "raised"],
          booked |-> <<>>]

\* chat once the intent is detected
chat_routed(e, message, intent, qo, so, t1, t2) ==
    IF FormRoute(e, intent)
    THEN IF ~e.in_form
         THEN chat_start_form(e, start(e.form))
         ELSE chat_form_input(e, handle_input(e.form, message), so, t1, t2)
    ELSE chat_qa(e, qo)

\* chat(message): [eng, response, calls, booked]; llm, qo, so, t1, t2 are what
\* the classifier, the QA chain, the booking file and the clock yield when the
\* turn consults them
chat(e, message, llm, qo, so, t1, t2) ==
    IF NeedsUpload(e)
    THEN [eng |-> e, response |-> UploadFirst, calls |-> NoCalls, booked |-> <<>>]
    ELSE chat_routed(e, message, detect_intent(message, llm), qo, so, t1, t2)

\* reset_form(): [eng, response]
reset_form(e) ==
    [eng |-> [e EXCEPT !.in_form = FALSE, !.form = reset(e.form)],
     response |-> [response |-> <<"Form reset. I'm ready to answer questions about your documents.">>,
                   sources |-> <<>>,
                   needs_info |-> FALSE,
                   form_prompt |-> Missing,
                   form_complete |-> Missing,
                   form_data |-> Missing]]

\* ------------------------------------------------------------------------
\* Inputs
\* ------------------------------------------------------------------------
MsgPhone == <<"5","5","5","1","2","3","4","5","6","7">>
MsgEmail == <<"C","a","l","l","@","x",".","i","o">>
MsgDate == <<"2","0","2","4","-","0","3","-","1","5">>
MsgEmpty == <<>>

\* the texts a user sends: each is accepted by validate_name unless empty, one by
\* validate_phone, one by validate_email (it also contains the keyword "call"),
\* one by the date parser
Messages == {MsgPhone, MsgEmail, MsgDate, MsgEmpty}

\* what the language model answers to the intent prompt: the three labels, an
\* unrecognised label, or an error
LLMOutcomes == {QA, APPOINTMENT, CONTACT, <<"N","o"," ">>, LLMRaise}

\* readings of datetime.utcnow()
Clock == 0..MaxClock

\* ------------------------------------------------------------------------
\* State
\* ------------------------------------------------------------------------
VARIABLES
    qa_chain,       \* ChatbotEngine.qa_chain is set (documents loaded)
    in_form,        \* ChatbotEngine.in_form
    collected,      \* form.collected
    current_field,  \* form.current_field
    user_info,      \* ChatbotEngine.user_info
    bookings,       \* appointments/bookings.jsonl, one record per line
    response,       \* the dict the last chat / reset_form call returned
    calls,          \* the collaborators the last chat call invoked
    http_status,    \* status of the last HTTP request, 0 before the first
    ret,            \* what the last direct call of a form method returned
    formOwner,      \* history: the session whose request started the form in progress
    contributors,   \* history: the sessions whose answers the form holds
    e2e,            \* history: position in the end-to-end booking dialogue
    formScript,     \* history: position in the start + four valid answers script
    rejects,        \* history: consecutive rejected answers, up to MaxRejects
    input,          \* the arguments of the last direct call of a function
    output          \* what that call returned

engineVars == <<qa_chain, in_form, collected, current_field, user_info>>
turnVars == <<bookings, response, calls>>
routeVars == <<http_status, formOwner, contributors>>
formHistVars == <<ret, formScript, rejects>>
callVars == <<input, output>>
vars == <<qa_chain, in_form, collected, current_field, user_info, bookings, response,
          calls, http_status, ret, formOwner, contributors, e2e, formScript, rejects,
          input, output>>

Form == [collected |-> collected, current_field |-> current_field]

Eng == [qa_chain |-> qa_chain, in_form |-> in_form, form |-> Form, user_info |-> user_info]

NoResponse ==
    [response |-> <<>>, sources |-> <<>>, needs_info |-> FALSE,
     form_prompt |-> Missing, form_complete |-> Missing, form_data |-> Missing]

E2EOff == [stage |-> 0, answers |-> <<>>]

\* the answers of the scripted dialogues, in the order they are given
ScriptFields == <<"name", "phone", "email", "preferred_datetime">>

\* a new engine holding a new form; nothing called yet
Init ==
    /\ qa_chain = NewEngine.qa_chain
    /\ in_form = NewEngine.in_form
    /\ collected = NewEngine.form.collected
    /\ current_field = NewEngine.form.current_field
    /\ user_info = NewEngine.user_info
    /\ bookings = <<>>
    /\ response = NoResponse
    /\ calls = NoCalls
    /\ http_status = 0
    /\ ret = <<>>
    /\ formOwner = 0
    /\ contributors = {}
    /\ e2e = E2EOff
    /\ formScript = 0
    /\ rejects = 0
    /\ input = <<>>
    /\ output = <<>>

\* ------------------------------------------------------------------------
\* Engine operations
\* ------------------------------------------------------------------------
\* the turn reaches self.qa_chain.invoke
AsksQA(e, message, llm) == ~NeedsUpload(e) /\ ~FormRoute(e, detect_intent(message, llm))

\* the turn reaches self.tools.tool_book_appointment
Books(e, message) ==
    ~NeedsUpload(e) /\ e.in_form /\ is_complete(handle_input(e.form, message).form)

\* the effect of one call of chat that yields r
TurnWith(r) ==
    /\ qa_chain' = r.eng.qa_chain
    /\ in_form' = r.eng.in_form
    /\ collected' = r.eng.form.collected
    /\ current_field' = r.eng.form.current_field
    /\ user_info' = r.eng.user_info
    /\ bookings' = bookings \o r.booked
    /\ response' = r.response
    /\ calls' = r.calls

\* one call chat(message); an outcome is drawn for each collaborator the turn
\* consults, and a turn that books needs room in the log
Turn(message, llm) ==
    /\ NeedsUpload(Eng) => llm = LLMRaise
    /\ \E qo \in QAOutcomes :
        /\ ~AsksQA(Eng, message, llm) => qo = "ok"
        /\ IF Books(Eng, message)
           THEN /\ Len(bookings) < MaxBookings
                /\ \E so \in SinkOutcomes, t1 \in Clock, t2 \in Clock :
                       /\ t1 <= t2
                       /\ \E r \in {chat(Eng, message, llm, qo, so, t1, t2)} : TurnWith(r)
           ELSE \E r \in {chat(Eng, message, llm, qo, "ok", 0, 0)} : TurnWith(r)

\* ChatbotEngine.chat(message)
Chat(message) ==
    \E llm \in LLMOutcomes :
        /\ Turn(message, llm)
        /\ UNCHANGED <<callVars, routeVars, e2e, formHistVars>>

\* ChatbotEngine.load_uploaded_files; ok: documents were processed and indexed
LoadUploadedFiles(ok) ==
    /\ qa_chain' = (qa_chain \/ ok)
    /\ UNCHANGED <<callVars, in_form, collected, current_field, user_info, turnVars, routeVars,
                   e2e, formHistVars>>

\* the effect of one call of reset_form that yields r
ResetWith(r) ==
    /\ in_form' = r.eng.in_form
    /\ collected' = r.eng.form.collected
    /\ current_field' = r.eng.form.current_field
    /\ response' = r.response
    /\ calls' = NoCalls
    /\ UNCHANGED <<callVars, qa_chain, user_info, bookings, routeVars, e2e, formHistVars>>

\* ChatbotEngine.reset_form
ResetForm == \E r \in {reset_form(Eng)} : ResetWith(r)

Next ==
    \/ \E message \in Messages : Chat(message)
    \/ \E ok \in BOOLEAN : LoadUploadedFiles(ok)
    \/ ResetForm

\* the engine driven through its own methods
Spec == Init /\ [][Next]_vars

\* ------------------------------------------------------------------------
\* One dialogue through chat, with its position in the end-to-end script
\* ------------------------------------------------------------------------
\* position in the dialogue: appointment message, name, phone, email, date, ""
E2ENext(e, message, llm, cur) ==
    IF cur.stage = 5 /\ Strip(message) = <<>>
    THEN [cur EXCEPT !.stage = 6]
    ELSE IF e.qa_chain /\ ~e.in_form /\ detect_intent(message, llm) = APPOINTMENT
    THEN [stage |-> 1, answers |-> <<>>]
    ELSE IF /\ cur.stage \in 1..4
            /\ validate_and_normalize(ScriptFields[cur.stage], message)[1]
    THEN [stage |-> cur.stage + 1, answers |-> Append(cur.answers, message)]
    ELSE E2EOff

DialogueChat(message) ==
    \E llm \in LLMOutcomes :
        /\ Turn(message, llm)
        /\ e2e' = E2ENext(Eng, message, llm, e2e)
        /\ UNCHANGED <<callVars, routeVars, formHistVars>>

DialogueNext ==
    \/ \E message \in Messages : DialogueChat(message)
    \/ \E ok \in BOOLEAN : LoadUploadedFiles(ok)

DialogueSpec == Init /\ [][DialogueNext]_vars

\* ------------------------------------------------------------------------
\* api/routes.py : the HTTP routes over the module-level chatbot_engine
\* ------------------------------------------------------------------------
\* POST /ask sent by session s
AskQuestion(s, question) ==
    IF Strip(question) = <<>>
    THEN /\ http_status' = 500
         /\ UNCHANGED <<callVars, engineVars, turnVars, formOwner, contributors, e2e, formHistVars>>
    ELSE \E llm \in LLMOutcomes :
         /\ Turn(question, llm)
         /\ http_status' = 200
         /\ formOwner' = IF calls'.start = 1 THEN s
                         ELSE IF ~in_form' THEN 0 ELSE formOwner
         /\ contributors' = IF collected' # collected
                            THEN contributors \cup {s}
                            ELSE contributors
         /\ UNCHANGED <<callVars, e2e, formHistVars>>

\* POST /upload-documents; ok is the result of load_uploaded_files
UploadDocuments(ok) ==
    /\ qa_chain' = (qa_chain \/ ok)
    /\ http_status' = IF ok THEN 200 ELSE 500
    /\ UNCHANGED <<callVars, in_form, collected, current_field, user_info, turnVars,
                   formOwner, contributors, e2e, formHistVars>>

RouteNext ==
    \/ \E s \in Sessions, question \in Messages : AskQuestion(s, question)
    \/ \E ok \in BOOLEAN : UploadDocuments(ok)

RouteSpec == Init /\ [][RouteNext]_vars

\* ------------------------------------------------------------------------
\* A ConversationalForm driven through its own methods
\* ------------------------------------------------------------------------
\* the effect on the form of a call that yields r = [form, ret]
FormWith(r) ==
    /\ collected' = r.form.collected
    /\ current_field' = r.form.current_field
    /\ ret' = r.ret

FormStart ==
    /\ \E r \in {start(Form)} : FormWith(r)
    /\ formScript' = IF Form = NewForm THEN 1 ELSE 0
    /\ rejects' = 0
    /\ UNCHANGED <<callVars, qa_chain, in_form, user_info, turnVars, routeVars, e2e>>

FormHandleInput(user_text) ==
    /\ \E r \in {handle_input(Form, user_text)} : FormWith(r)
    /\ formScript' =
           IF /\ formScript \in 1..4
              /\ validate_and_normalize(ScriptFields[formScript], user_text)[1]
           THEN formScript + 1
           ELSE 0
    /\ rejects' =
           IF /\ current_field \in Required
              /\ ~validate_and_normalize(current_field, user_text)[1]
           THEN (IF rejects < MaxRejects THEN rejects + 1 ELSE rejects)
           ELSE 0
    /\ UNCHANGED <<callVars, qa_chain, in_form, user_info, turnVars, routeVars, e2e>>

FormReset ==
    /\ \E f \in {reset(Form)} : collected' = f.collected /\ current_field' = f.current_field
    /\ formScript' = 0
    /\ rejects' = 0
    /\ UNCHANGED <<callVars, qa_chain, in_form, user_info, turnVars, routeVars, e2e, ret>>

\* an answer typed with blanks around it
MsgNote == <<" ","o","k"," ">>

\* the answers given to the form
FormTexts == Messages \cup {MsgNote}

FormNext ==
    \/ FormStart
    \/ \E user_text \in FormTexts : FormHandleInput(user_text)
    \/ FormReset

FormSpec == Init /\ [][FormNext]_vars

\* ------------------------------------------------------------------------
\* _detect_intent called directly
\* ------------------------------------------------------------------------
\* every variable but input and output
stateVars == <<engineVars, turnVars, routeVars, e2e, formHistVars>>

MsgQuestion == <<"W","h","a","t"," ","i","s"," ","R","A","G","?">>
MsgShout == <<"P","l","e","a","s","e"," ","S","C","H","E","D","U","L","E"," ","i","t">>
MsgRecall == <<"I"," ","r","e","c","a","l","l","e","d">>

\* messages to classify: the chat messages, each keyword alone, a question, a
\* keyword in capitals and a keyword inside another word
IntentMessages ==
    Messages \cup contact_keywords_unexpected \cup {MsgQuestion, MsgShout, MsgRecall}

\* what the language model answers: the labels as such, a label with blanks
\* and capitals, unrecognised or empty content, an error
IntentReplies ==
    LLMOutcomes \cup {<<" ","Q","A"," ">>, <<"C","o","n","t","a","c","t">>, <<>>,
                      <<"b","o","o","k","i","n","g">>}

DetectIntent(message, llm) ==
    /\ input' = <<message, llm>>
    /\ output' = detect_intent(message, llm)
    /\ UNCHANGED stateVars

IntentNext == \E message \in IntentMessages, llm \in IntentReplies : DetectIntent(message, llm)

IntentSpec == Init /\ [][IntentNext]_vars

\* ------------------------------------------------------------------------
\* tool_book_appointment called directly
\* ------------------------------------------------------------------------
BookingNames == {CleanedName(MsgEmail), CleanedName(MsgPhone), CleanedName(MsgDate)}
BookingNotes == {None, <<>>, MsgQuestion}

\* payloads as the form hands them over
BookingPayloads ==
    {[name |-> n,
      phone |-> validate_phone(MsgPhone)[2],
      email |-> validate_email(MsgEmail)[2],
      preferred_datetime |-> MsgDate,
      notes |-> nt] : n \in BookingNames, nt \in BookingNotes}

\* one call tool_book_appointment(payload): the record is appended and the id
\* returned, or the call raises before anything is written
BookAppointment(payload, outcome, t1, t2) ==
    /\ Len(bookings) < MaxCalls
    /\ t1 <= t2
    /\ \E bk \in {tool_book_appointment(payload, outcome, t1, t2)} :
           /\ bookings' = IF bk.raised THEN bookings ELSE Append(bookings, bk.record)
           /\ output' = IF bk.raised THEN <<"raised">> ELSE bk.id
    /\ input' = payload
    /\ UNCHANGED <<engineVars, response, calls, routeVars, e2e, formHistVars>>

BookingNext ==
    \E payload \in BookingPayloads, outcome \in SinkOutcomes, t1 \in Clock, t2 \in Clock :
        BookAppointment(payload, outcome, t1, t2)

BookingSpec == Init /\ [][BookingNext]_vars

\* ------------------------------------------------------------------------
\* Direct calls of DateExtractor.extract_date
\* ------------------------------------------------------------------------
\* self.today of the extractor: each day of the week of Monday 2024-03-04,
\* month ends, a leap day and year ends
ReferenceDates ==
    {<<2024, 3, 4>>, <<2024, 3, 5>>, <<2024, 3, 6>>, <<2024, 3, 7>>, <<2024, 3, 8>>,
     <<2024, 3, 9>>, <<2024, 3, 10>>, <<2024, 1, 31>>, <<2024, 2, 29>>, <<2024, 12, 31>>,
     <<2023, 12, 28>>}


\* "next <day>" for entry i of days_of_week
NextDayPhrase(i) == <<"n","e","x","t"," ">> \o days_of_week[i][1]

\* a sentence with the bare name of entry i of days_of_week
OnDayPhrase(i) == <<"s","e","e"," ","y","o","u"," ","o","n"," ">> \o days_of_week[i][1]

DatePhrases ==
    {<<"t","o","d","a","y">>,
     <<"T","o","m","o","r","r","o","w">>,
     <<"y","e","s","t","e","r","d","a","y">>,
     <<"n","e","x","t"," ","w","e","e","k">>,
     <<"t","h","i","s"," ","w","e","e","k">>,
     <<"n","e","x","t"," ","m","o","n","t","h">>,
     <<"i","n"," ","3"," ","d","a","y","s">>,
     <<"i","n"," ","2"," ","w","e","e","k","s">>,
     <<"f","r","i","d","a","y">>,
     <<"t","h","i","s"," ","f","r","i","d","a","y">>,
     <<" ","N","e","x","t"," ","S","u","n"," ">>,
     <<"m","a","r","c","h"," ","5">>,
     <<"5","t","h"," ","o","f"," ","m","a","r","c","h">>,
     <<"f","e","b","r","u","a","r","y"," ","3","0">>,
     <<"f","e","b"," ","2","9">>,
     <<"m","o","n","d","a","y"," ","m","a","r","c","h"," ","1","5">>,
     <<"0","3","/","0","5","/","2","0","2","4">>,
     <<"0","3","/","0","5">>,
     <<"0","3","-","0","5","-","2","0","2","4">>,
     <<"2","0","2","4","/","0","3","/","0","5">>,
     <<"2","0","2","4","-","0","3","-","0","5">>,
     <<"2","0","2","4","-","3","-","5">>,
     <<"2","0","2","4","-","1","2","-","2","5">>,
     <<"0","3","/","0","5","/","2","4">>,
     <<"0","2","/","3","0","/","2","0","2","4">>,
     <<"1","3","/","0","5","/","2","0","2","4">>,
     <<"1","2","-","2","5">>,
     <<"o","n"," ","0","6","/","0","1","/","2","0","2","5"," ","o","k">>,
     <<"h","e","l","l","o">>}
        \cup {NextDayPhrase(i) : i \in {k \in 1..Len(days_of_week) : Len(days_of_week[k][1]) > 3}}
        \cup {days_of_week[i][1] : i \in 1..Len(days_of_week)}
        \cup {OnDayPhrase(i) : i \in 1..Len(days_of_week)}

\* DateExtractor(): self.today is read once, when the extractor is created;
\* input holds the last text and self.today
NewDateExtractor(today) ==
    /\ input = <<>>
    /\ input' = <<<<>>, today>>
    /\ UNCHANGED <<output, stateVars>>

\* extract_date(text) on the extractor created
ExtractDate(text) ==
    /\ input # <<>>
    /\ input' = <<text, input[2]>>
    /\ output' = extract_date(text, input[2])
    /\ UNCHANGED stateVars

DateNext ==
    \/ \E today \in ReferenceDates : NewDateExtractor(today)
    \/ \E text \in DatePhrases : ExtractDate(text)

DateSpec == Init /\ [][DateNext]_vars

\* ------------------------------------------------------------------------
\* Direct calls of validate_name
\* ------------------------------------------------------------------------
\* tokens of a name: one letter, lower and upper case, capitals inside a
\* token, after an apostrophe and after a hyphen
NameTokens ==
    {<<"a">>,
     <<"B">>,
     <<"j","o">>,
     <<"M","c","D">>,
     <<"o","'","N">>,
     <<"x","-","Y">>}

\* blanks before a name and between its tokens
NameLead == {<<>>, <<" ">>}
NameGaps == {<<" ">>, <<" ", " ">>}

NameTexts ==
    {<<>>, <<" ">>, <<" ", " ">>}
        \cup {lead \o t \o trail : lead \in NameLead, t \in NameTokens, trail \in NameLead}
        \cup {lead \o t1 \o gap \o t2 :
                  lead \in NameLead, t1 \in NameTokens, gap \in NameGaps, t2 \in NameTokens}

ValidateName(text) ==
    /\ input' = text
    /\ output' = validate_name(text)
    /\ UNCHANGED stateVars

NameNext == \E text \in NameTexts : ValidateName(text)

NameSpec == Init /\ [][NameNext]_vars

\* ------------------------------------------------------------------------
\* Direct calls of validate_phone
\* ------------------------------------------------------------------------
\* the characters of a phone number as typed, before punctuation is added:
\* no digit, 5, 9, 10, 11, 12 and 13 digits
PhoneBases ==
    {<<>>,
     <<"a","b","c">>,
     <<"1","2","3","4","5">>,
     <<"5","5","5","1","2","3","4","5","6">>,
     <<"5","5","5","1","2","3","4","5","6","7">>,
     <<"1","5","5","5","1","2","3","4","5","6","7">>,
     <<"4","4","5","5","5","1","2","3","4","5","6","7">>,
     <<"0","0","1","5","5","5","1","2","3","4","5","6","7">>}

\* a phone number typed with a prefix, a separator after its third character
\* and a suffix
PhoneTyped(base, prefix, sep, suffix) ==
    IF Len(base) < 3 THEN prefix \o base \o suffix
    ELSE prefix \o SubSeq(base, 1, 3) \o sep \o SubSeq(base, 4, Len(base)) \o suffix

PhoneTexts ==
    {PhoneTyped(base, prefix, sep, suffix) :
        base \in PhoneBases,
        prefix \in {<<>>, <<"+">>, <<"(">>},
        sep \in {<<>>, <<"-">>, <<".">>, <<")", " ">>},
        suffix \in {<<>>, <<" ">>}}

ValidatePhone(text) ==
    /\ input' = text
    /\ output' = validate_phone(text)
    /\ UNCHANGED stateVars

PhoneNext == \E text \in PhoneTexts : ValidatePhone(text)

PhoneSpec == Init /\ [][PhoneNext]_vars

\* ------------------------------------------------------------------------
\* Properties
\* ------------------------------------------------------------------------
AllUnset == \A k \in Fields : collected[k] = None

UploadFirstText ==
    <<"Please upload some documents first so I can help answer your questions.">>
NamePrompt == <<"Sure - what is your full name?">>

\* the outcomes a turn may meet, whichever collaborators it consults
TurnOutcomes == QAOutcomes \X SinkOutcomes \X Clock \X Clock

\* the outcomes the turn on message may meet with the form in progress: when
\* the turn books, one of the sink and the two clock readings
OutcomesOf(message) ==
    IF Books(Eng, message)
    THEN {o \in TurnOutcomes : o[1] = "ok" /\ o[3] <= o[4]}
    ELSE {<<"ok", "ok", 0, 0>>}

\* C1: while in_form is set every chat message goes to the form's handle_input
\* whatever the classifier yields (qa, appointment, contact, an unrecognised
\* label, an error): the QA chain is not invoked, and the response and the
\* resulting state are the same for every classifier outcome; and in_form is
\* cleared only by a turn that completes the form or by reset_form.
C1_InFormState ==
    in_form =>
        \A message \in Messages : \A o \in OutcomesOf(message) :
            \E r \in {chat(Eng, message, QA, o[1], o[2], o[3], o[4])} :
                /\ r.calls.handle_input = 1
                /\ r.calls.qa = "no"
                /\ r.calls.start = 0
                /\ r.eng.form = handle_input(Form, message).form
                /\ \A llm \in LLMOutcomes :
                       chat(Eng, message, llm, o[1], o[2], o[3], o[4]) = r

C1_FlagCleared ==
    (in_form /\ ~in_form') =>
        \/ is_complete(Form') /\ response'.form_complete = Present(TRUE)
        \/ ResetForm

C1_InFormAlwaysRoutesToForm == []C1_InFormState /\ [][C1_FlagCleared]_vars

\* C1 witness: a turn taken with the form in progress went to handle_input and
\* the form is still in progress
C1_Witness ==
    /\ in_form
    /\ calls.classifier = 1
    /\ calls.handle_input = 1
    /\ calls.qa = "no"
    /\ response.form_complete = Present(FALSE)

\* C2: after a turn on which the form completed and booking was attempted, the
\* form is as a new form (all five values unset, no current field), so that the
\* next message classified as appointment or contact gets the name prompt.
C2_FormResetAfterBooking ==
    response.form_complete = Present(TRUE) =>
        /\ AllUnset
        /\ current_field = NoField
        /\ \A message \in Messages, llm \in LLMOutcomes :
               detect_intent(message, llm) \in {APPOINTMENT, CONTACT} =>
                   chat(Eng, message, llm, "ok", "ok", 0, 0).response.form_prompt
                       = Present(NamePrompt)

\* C9: with no QA chain and no form in progress (the state of a new engine)
\* every chat message gets the fixed upload-first response with no sources and
\* needs_info false; no classifier, QA chain, form or sink call is made, and
\* in_form, the form and user_info are left as they were.
C9_NoDocumentsFixedResponse ==
    /\ (~NewEngine.qa_chain /\ ~NewEngine.in_form)
    /\ (~qa_chain /\ ~in_form) =>
           \A message \in Messages, o \in TurnOutcomes, llm \in LLMOutcomes :
               LET r == chat(Eng, message, llm, o[1], o[2], o[3], o[4])
               IN  /\ r.response.response = UploadFirstText
                   /\ r.response.sources = <<>>
                   /\ r.response.needs_info = FALSE
                   /\ r.response.form_prompt = Missing
                   /\ r.response.form_data = Missing
                   /\ r.calls = NoCalls
                   /\ r.booked = <<>>
                   /\ r.eng.in_form = in_form
                   /\ r.eng.form = Form
                   /\ r.eng.user_info = user_info

\* C9 witness: chat has answered upload-first on an engine without documents
C9_Witness ==
    /\ ~qa_chain
    /\ ~in_form
    /\ response.response = UploadFirstText
    /\ calls = NoCalls

\* C10 as claimed: without a QA chain a message classified as appointment or
\* contact still starts the form and gets its first prompt, and only messages
\* classified as questions get the fixed upload-first response.
C10_FormStartsWithoutDocuments ==
    (~qa_chain /\ ~in_form) =>
        \A message \in Messages, llm \in LLMOutcomes :
            LET r == chat(Eng, message, llm, "ok", "ok", 0, 0)
            IN  IF detect_intent(message, llm) \in {APPOINTMENT, CONTACT}
                THEN r.eng.in_form /\ r.response.form_prompt = Present(NamePrompt)
                ELSE r.response.response = UploadFirstText

\* C10 amended: without a QA chain no form can be started: a message classified
\* as appointment or contact gets the fixed upload-first response like any
\* other and leaves the form not started, so that a form in progress, a
\* collected value or a booking exists only once documents are loaded.
C10_NoFormWithoutDocuments ==
    ~qa_chain =>
        /\ ~in_form
        /\ AllUnset
        /\ current_field = NoField
        /\ bookings = <<>>
        /\ \A message \in Messages, llm \in LLMOutcomes :
               detect_intent(message, llm) \in {APPOINTMENT, CONTACT} =>
                   LET r == chat(Eng, message, llm, "ok", "ok", 0, 0)
                   IN  /\ r.response.response = UploadFirstText
                       /\ ~r.eng.in_form
                       /\ r.calls.start = 0

\* C10 witness: an appointment message exists for which, on this engine without
\* documents, the answer returned was upload-first and no form was started
C10_Witness ==
    /\ ~qa_chain
    /\ response.response = UploadFirstText
    /\ current_field = NoField
    /\ \E message \in Messages, llm \in LLMOutcomes :
           /\ detect_intent(message, llm) = APPOINTMENT
           /\ chat(Eng, message, llm, "ok", "ok", 0, 0).response = response

PhonePrompt == <<"What's the best phone number to reach you?">>
EmailPrompt == <<"And your email address?">>
DatePrompt == <<"When would you prefer the appointment?.">>

PromptOf(field) ==
    IF field = "name" THEN NamePrompt
    ELSE IF field = "phone" THEN PhonePrompt
    ELSE IF field = "email" THEN EmailPrompt
    ELSE DatePrompt

RejectionOf(field) ==
    IF field = "name" THEN NameRejected
    ELSE IF field = "phone" THEN PhoneRejected
    ELSE IF field = "email" THEN EmailRejected
    ELSE DateRejected

IsSet(field) == collected[field] # None

\* C3: in every state reached by start, handle_input and reset, a required
\* field holds a value only if every earlier required field (name, phone,
\* email, preferred_datetime) holds one, and every stored required value is the
\* normalized result of a successful validation of some answer.
C3_RequiredFilledInOrder ==
    /\ IsSet("phone") => IsSet("name")
    /\ IsSet("email") => IsSet("phone")
    /\ IsSet("preferred_datetime") => IsSet("email")
    /\ \A field \in {"name", "phone", "email", "preferred_datetime"} :
           IsSet(field) =>
               \E answer \in FormTexts :
                   validate_and_normalize(field, answer) = <<TRUE, collected[field]>>

\* C3 witness: name and phone are stored, email and date are not
C3_Witness ==
    /\ IsSet("name")
    /\ IsSet("phone")
    /\ ~IsSet("email")
    /\ ~IsSet("preferred_datetime")
    /\ current_field = "email"

\* C4: an answer the current required field's validator (the date parser for
\* preferred_datetime) rejects leaves the current field and the five values as
\* they were, and handle_input returns the rejection message with the prompt
\* of that same field; so after any number of rejections in a row.
C4_Rejection ==
    \A answer \in FormTexts :
        ( /\ current_field \in {"name", "phone", "email", "preferred_datetime"}
          /\ ~validate_and_normalize(current_field, answer)[1]
          /\ FormHandleInput(answer) )
        => /\ collected' = collected
           /\ current_field' = current_field
           /\ ret' = <<RejectionOf(current_field), PromptOf(current_field)>>

C4_RejectedAnswerChangesNothing == [][C4_Rejection]_vars

\* C4 witness: MaxRejects answers in a row were rejected for the phone field
C4_Witness ==
    /\ rejects = MaxRejects
    /\ current_field = "phone"
    /\ ret = <<PhoneRejected, PhonePrompt>>
    /\ ~IsSet("phone")

\* C5: is_complete() is true exactly when the four required fields hold a
\* value, whether or not notes is set, and once true it stays true under
\* start and handle_input until reset is called.
C5_CompleteState ==
    is_complete(Form) <=>
        (IsSet("name") /\ IsSet("phone") /\ IsSet("email") /\ IsSet("preferred_datetime"))

C5_StaysComplete == (is_complete(Form) /\ ~FormReset) => is_complete(Form)'

C5_CompleteIffRequiredSet == []C5_CompleteState /\ [][C5_StaysComplete]_vars

\* C5 witness: the form is complete, notes were answered, and a further
\* handle_input has been taken
C5_Witness ==
    /\ is_complete(Form)
    /\ IsSet("notes")
    /\ ret = <<<<"Thanks! I have all the information needed.">>, None>>

\* C6: a new form that is started and then given one valid answer each for
\* name, phone, email and preferred_datetime, in this order, has current field
\* name, phone, email, preferred_datetime in turn and ends collecting the
\* optional notes: four required values set, notes unset, current field notes.
C6_ScriptReachesNotes ==
    /\ formScript = 1 => current_field = "name" /\ AllUnset
    /\ formScript = 2 => current_field = "phone" /\ IsSet("name") /\ ~IsSet("phone")
    /\ formScript = 3 => current_field = "email" /\ IsSet("phone") /\ ~IsSet("email")
    /\ formScript = 4 =>
           current_field = "preferred_datetime" /\ IsSet("email")
               /\ ~IsSet("preferred_datetime")
    /\ formScript = 5 =>
           /\ current_field = "notes"
           /\ IsSet("name") /\ IsSet("phone") /\ IsSet("email")
           /\ IsSet("preferred_datetime")
           /\ ~IsSet("notes")

\* C6 witness: the script has run to its end
C6_Witness == formScript = 5 /\ current_field = "notes"

\* the record the scripted dialogue is to book
ExpectedData(answers) ==
    [k \in Fields |->
        IF k = "notes" THEN None
        ELSE validate_and_normalize(k, answers[IndexOf(ScriptFields, k)])[2]]

\* C7: on an engine with documents loaded and no form in progress, a message
\* classified as appointment starts the form (name prompt, the message is not
\* taken as an answer); the turns that follow with a valid name, phone, email
\* and date and then an empty notes reply make exactly one booking call, whose
\* record holds the normalized name, phone, email and date, and the completing
\* response carries the confirmation id returned and the form data.
C7_EndToEndBooking ==
    /\ e2e.stage = 1 =>
           /\ in_form
           /\ calls.start = 1
           /\ calls.handle_input = 0
           /\ response.form_prompt = Present(NamePrompt)
           /\ AllUnset
    /\ e2e.stage \in 2..4 => calls.sink = "no"
    /\ e2e.stage = 5 =>
           /\ calls.sink # "no"
           /\ response.form_complete = Present(TRUE)
           /\ response.form_data = Present(ExpectedData(e2e.answers))
           /\ calls.sink = "ok" =>
                  /\ bookings # <<>>
                  /\ \A k \in Required :
                         bookings[Len(bookings)][k] = ExpectedData(e2e.answers)[k]
                  /\ response.response =
                         <<"Your appointment is booked. Confirmation: ",
                           bookings[Len(bookings)].id>>
    /\ e2e.stage = 6 => calls.sink = "no"

\* C8: client sessions share no dialogue state: a form started by one session
\* never takes another session's message as a form answer, and a booking made
\* for one session holds only values that session entered.
C8_SessionsIsolated ==
    /\ in_form => contributors \subseteq {formOwner}
    /\ (response.form_complete = Present(TRUE) /\ calls.sink # "no") =>
           Cardinality(contributors) <= 1

\* the keyword list of the fallback, as the intent test states it
FixedKeywords ==
    { <<"c","a","l","l"," ","m","e">>,
      <<"c","o","n","t","a","c","t"," ","m","e">>,
      <<"b","o","o","k"," ","a","p","p","o","i","n","t","m","e","n","t">>,
      <<"s","c","h","e","d","u","l","e">>,
      <<"c","a","l","l">>,
      <<"r","e","a","c","h"," ","o","u","t">>,
      <<"a","p","p","o","i","n","t","m","e","n","t">>,
      <<"p","h","o","n","e"," ","n","u","m","b","e","r">>,
      <<"e","m","a","i","l"," ","m","e">>,
      <<"b","o","o","k">>,
      <<"r","e","s","e","r","v","e">>,
      <<"m","a","k","e"," ","a","p","p","o","i","n","t","m","e","n","t">>,
      <<"s","e","t"," ","u","p"," ","m","e","e","t","i","n","g">> }

\* the reply is an error or no recognised label
Unrecognised(llm) ==
    llm = LLMRaise \/ LowerText(Strip(llm)) \notin {QA, APPOINTMENT, CONTACT}

\* C11: when the classifier raises or returns no recognised label,
\* _detect_intent returns appointment if the lower-cased message contains a
\* phrase of the fixed keyword list and qa otherwise, never contact; the error
\* path and the unrecognised-label path give the same result, and a label is
\* always returned (no exception escapes).
C11_KeywordFallback ==
    (input # <<>> /\ Unrecognised(input[2])) =>
        /\ output = (IF \E k \in FixedKeywords : IsSubstring(k, LowerText(input[1]))
                     THEN APPOINTMENT ELSE QA)
        /\ output # CONTACT
        /\ \A llm \in IntentReplies :
               Unrecognised(llm) => detect_intent(input[1], llm) = output

\* C11 witness: an unrecognised label on a message whose only keyword is
\* written with a capital fell back to appointment
C11_Witness ==
    /\ input = <<MsgEmail, <<"b","o","o","k","i","n","g">> >>
    /\ output = APPOINTMENT

GenericAck == <<"Thanks! I have all the details and will proceed with booking.">>

\* C12: on the turn that completes the form with the booking sink raising,
\* chat still returns: form_complete is true, form_data is the collected data,
\* the text is the generic acknowledgment without a confirmation id, in_form is
\* cleared, and nothing is appended to the log (the sink is not called again).
C12_RaisedState ==
    calls.sink = "raised" =>
        /\ response.form_complete = Present(TRUE)
        /\ response.form_data = Present(collected)
        /\ \A k \in Required : collected[k] # None
        /\ response.response = GenericAck
        /\ response.form_prompt = Missing
        /\ ~in_form

C12_RaisedStep ==
    (calls'.sink = "raised" /\ in_form) =>
        /\ bookings' = bookings
        /\ calls'.handle_input = 1
        /\ is_complete(Form')

C12_SinkFailureAbsorbed == []C12_RaisedState /\ [][C12_RaisedStep]_vars

\* C12 witness: the completing turn met a raising sink and the log is empty
C12_Witness ==
    /\ calls.sink = "raised"
    /\ response.form_complete = Present(TRUE)
    /\ bookings = <<>>
    /\ ~in_form

QAErrorText == <<"I encountered an error while processing your question: ", <<"<str(e)>">>>>

\* C13: on a question turn whose QA chain raises, chat returns the error text
\* with no sources and needs_info false and leaves in_form, the form,
\* user_info and the log as they were, so that the next message meets the
\* engine the failed turn met.
C13_QAFailureState ==
    \A message \in Messages, llm \in LLMOutcomes :
        AsksQA(Eng, message, llm) =>
            \E r \in {chat(Eng, message, llm, "raise", "ok", 0, 0)} :
                /\ r.calls.qa = "raised"
                /\ r.response.response = QAErrorText
                /\ r.response.sources = <<>>
                /\ r.response.needs_info = FALSE
                /\ r.response.form_prompt = Missing
                /\ r.response.form_data = Missing
                /\ r.eng = Eng
                /\ r.booked = <<>>
                /\ \A next \in Messages :
                       chat(r.eng, next, llm, "ok", "ok", 0, 0)
                           = chat(Eng, next, llm, "ok", "ok", 0, 0)

C13_QAFailureStep ==
    (calls'.qa = "raised" /\ calls' # calls) => UNCHANGED <<engineVars, bookings>>

C13_QAFailureLeavesState == []C13_QAFailureState /\ [][C13_QAFailureStep]_vars

\* C13 witness: the last turn was a question whose QA chain raised
C13_Witness ==
    /\ calls.qa = "raised"
    /\ response.response = QAErrorText
    /\ qa_chain
    /\ ~in_form

\* C14: in every response, a non-null form_prompt is present only if after
\* the turn a form is in progress and is_complete() is false, and form_data is
\* present only on a turn on which the form completed and booking was attempted.
C14_PromptAndDataOnlyWhenDue ==
    /\ (response.form_prompt # Missing /\ response.form_prompt # Present(None)) =>
           (in_form /\ ~is_complete(Form))
    /\ response.form_data # Missing =>
           (response.form_complete = Present(TRUE) /\ calls.sink # "no")

\* C15: any two calls of tool_book_appointment return distinct confirmation
\* ids, whatever the clock readings, so no two records of the log share an id.
C15_ConfirmationIdsUnique ==
    \A i \in 1..Len(bookings), j \in 1..Len(bookings) :
        i # j => bookings[i].id # bookings[j].id

\* C16: whatever the reference date and the phrase, a date returned by
\* extract_date is on or after the reference date, never strictly before it.
C16_NeverInThePast ==
    output # <<>> /\ output # None => ~DateBefore(DateutilParse(output), input[2])

\* C17: for every reference weekday and every weekday name D, "next D"
\* resolves to a date at least 7 days after the reference date; on Sunday
\* 2024-03-10 "next monday" is 2024-03-18.
C17_NextDayAtLeastAWeekAhead ==
    /\ \A i \in 1..Len(days_of_week) :
           output # <<>> /\ output # None /\ input[1] = NextDayPhrase(i)
               => ToOrdinal(DateutilParse(output)) >= ToOrdinal(input[2]) + 7
    /\ input = <<NextDayPhrase(1), <<2024, 3, 10>>>> => output = StrftimeYmd(<<2024, 3, 18>>)

\* C18: the strategies are tried in the order relative keyword, named
\* weekday, month+day, formal date and the first that matches gives the
\* result; a phrase with a weekday name and a month+day expression gets the
\* date of the named-weekday strategy.
C18_WeekdayBeforeMonthDay ==
    output # <<>> =>
        output = format_date(
            OrElse(extract_relative_dates(Strip(LowerText(input[1])), input[2]),
                   OrElse(extract_day_names(Strip(LowerText(input[1])), input[2]),
                          OrElse(extract_specific_dates(Strip(LowerText(input[1])), input[2]),
                                 extract_formal_dates(Strip(LowerText(input[1])), input[2])))))


\* C19: validate_name rejects a text that is empty, blank or shorter than 2
\* characters once trimmed; otherwise it returns the tokens joined by single
\* spaces with the first character of each token upper-cased and every other
\* character left as typed.
C19_OnlyFirstCharacterChanged ==
    output # <<>> =>
        IF Len(Strip(input)) < 2
        THEN output[1] = FALSE
        ELSE output =
                 <<TRUE,
                   JoinSpace([i \in 1..Len(Split(input)) |->
                                 [j \in 1..Len(Split(input)[i]) |->
                                     IF j = 1 THEN UpperChar(Split(input)[i][j])
                                     ELSE Split(input)[i][j]]])>>

\* C20: for every text validate_name accepts with normalized value n,
\* validate_name(n) is accepted too and returns n.
C20_NameNormalizationIdempotent ==
    output # <<>> /\ output[1] = TRUE => validate_name(output[2]) = <<TRUE, output[2]>>

\* a text was accepted and its normalized value differs from the text typed
C20_Witness ==
    output # <<>> /\ output[1] = TRUE /\ output[2] # input

\* C21: validate_phone keeps the digits of the text only and rejects the text
\* when fewer than 10 remain; 10 digits give '+1 AAA-BBB-CCCC'; more than 10
\* give '+<the digits before the last ten> AAA-BBB-CCCC' with the last ten
\* digits; '12345' is rejected and '5551234567' gives '+1 555-123-4567'.
C21_PhoneFormat ==
    output # <<>> =>
        /\ output[1] = (Cardinality({i \in 1..Len(input) : IsDigit(input[i])}) >= 10)
        /\ output[1] =>
               \E k \in 1..Len(output[2]) :
                   /\ Len(output[2]) = k + 14
                   /\ output[2][1] = "+" /\ output[2][k + 2] = " "
                   /\ output[2][k + 6] = "-" /\ output[2][k + 10] = "-"
                   /\ IF Cardinality({i \in 1..Len(input) : IsDigit(input[i])}) = 10
                      THEN /\ SubSeq(output[2], 2, k + 1) = <<"1">>
                           /\ SubSeq(output[2], k + 3, k + 5) \o SubSeq(output[2], k + 7, k + 9)
                                  \o SubSeq(output[2], k + 11, k + 14) = OnlyDigits(input)
                      ELSE SubSeq(output[2], 2, k + 1) \o SubSeq(output[2], k + 3, k + 5)
                               \o SubSeq(output[2], k + 7, k + 9)
                               \o SubSeq(output[2], k + 11, k + 14) = OnlyDigits(input)
        /\ input = <<"1","2","3","4","5">> => output[1] = FALSE
        /\ input = <<"5","5","5","1","2","3","4","5","6","7">>
               => output = <<TRUE, <<"+","1"," ","5","5","5","-","1","2","3","-",
                                    "4","5","6","7">>>>

\* a text with punctuation and more than 10 digits was accepted
C21_Witness ==
    /\ output # <<>>
    /\ output[1] = TRUE
    /\ Cardinality({i \in 1..Len(input) : IsDigit(input[i])}) > 10
    /\ Len(input) > Cardinality({i \in 1..Len(input) : IsDigit(input[i])})

\* C22: while the form collects the notes (all required fields set, current
\* field notes), handle_input with any answer, empty or blank included, stores
\* the trimmed answer as the notes, rejects nothing, changes no required
\* field and leaves the form complete: no current field, no prompt returned.
C22_NotesStoredUnvalidated ==
    current_field = "notes" /\ is_complete(Form) =>
        \A user_text \in FormTexts :
            \A r \in {handle_input(Form, user_text)} :
                /\ r.form.collected = [collected EXCEPT !["notes"] = Strip(user_text)]
                /\ r.form.current_field = NoField
                /\ is_complete(r.form)
                /\ r.ret = <<<<"All set!">>, None>>

\* the notes were answered with a text typed with blanks, stored trimmed
C22_Witness ==
    /\ is_complete(Form)
    /\ current_field = NoField
    /\ collected["notes"] = Strip(MsgNote)
    /\ ret = <<<<"All set!">>, None>>

\* C23: once the form is complete (all required fields set, notes answered),
\* every further handle_input, whatever the answer, leaves the five collected
\* values unchanged, keeps the form complete and returns a closing
\* acknowledgment with no prompt.
C23_CompleteFormIgnoresInput ==
    is_complete(Form) /\ collected["notes"] # None =>
        /\ current_field = NoField
        /\ \A user_text \in FormTexts :
               handle_input(Form, user_text) =
                   [form |-> Form,
                    ret |-> <<<<"Thanks! I have all the information needed.">>, None>>]

\* a further answer was given to a complete form
C23_Witness ==
    /\ is_complete(Form)
    /\ collected["notes"] # None
    /\ ret = <<<<"Thanks! I have all the information needed.">>, None>>

\* C24: reset() in any reachable form state leaves the five values unset and
\* no current field, after which start() returns the name prompt; reset_form
\* of the engine also clears the form-in-progress flag. No other operation
\* unsets a stored value or moves the current field to an earlier field.
C24_ResetState ==
    /\ reset(Form) = NewForm
    /\ start(reset(Form)).ret = <<NamePrompt>>
    /\ reset_form(Eng).eng.form = NewForm
    /\ reset_form(Eng).eng.in_form = FALSE

C24_NoBackwardStep ==
    ~ResetForm =>
        /\ \A k \in Fields : collected[k] # None => collected'[k] # None
        /\ current_field \in Fields /\ current_field' \in Fields =>
               IndexOf(required_fields_order \o optional_fields_order, current_field')
                   >= IndexOf(required_fields_order \o optional_fields_order, current_field)
        /\ is_complete(Form) /\ current_field' \in Fields => current_field' = "notes"

C24_OnlyResetGoesBack == []C24_ResetState /\ [][C24_NoBackwardStep]_vars

\* reset_form was called on an engine whose form had been completed and booked
C24_Witness ==
    /\ response.response = <<"Form reset. I'm ready to answer questions about your documents.">>
    /\ AllUnset
    /\ current_field = NoField
    /\ ~in_form
    /\ user_info.name # None

\* C25: start() called while the form collects a field returns the prompt of
\* that field and changes neither the current field nor a collected value;
\* start() called several times in a row does what one call does.
C25_StartIdempotent ==
    /\ current_field \in Required =>
           start(Form) = [form |-> Form, ret |-> <<PromptOf(current_field)>>]
    /\ current_field = "notes" =>
           start(Form) =
               [form |-> Form, ret |-> <<<<"Any additional notes or preferences? (optional)">>>>]
    /\ start(start(Form).form) = start(Form)
    /\ start(start(start(Form).form).form) = start(Form)

\* start() was called while the form was waiting for the phone number
C25_Witness ==
    /\ current_field = "phone"
    /\ IsSet("name")
    /\ ret = <<PhonePrompt>>

\* C26: the booking sink is invoked on the turn whose answer fills the last
\* required field, preferred_datetime, without waiting for notes: the data
\* passed then has notes unset, and from the creation or reset of the form up
\* to that turn the user is not asked for notes.
C26_NotesNotAskedYet ==
    ~is_complete(Form) =>
        /\ response.response # <<"Great, I have your details. Any additional notes? (optional)">>
        /\ response.response # <<"Anything else you'd like us to note (optional)?">>
        /\ response.form_prompt # Present(<<"Any additional notes or preferences? (optional)">>)

C26_BooksOnDateTurn ==
    in_form /\ ~is_complete(Form) =>
        \A message \in Messages, llm \in LLMOutcomes, so \in SinkOutcomes :
            \A r \in {chat(Eng, message, llm, "ok", so, 0, 0)} :
                IF /\ current_or_next(Form) = "preferred_datetime"
                   /\ validate_and_normalize("preferred_datetime", message)[1]
                THEN /\ r.calls.sink = (IF so = "raise" THEN "raised" ELSE "ok")
                     /\ r.response.form_complete = Present(TRUE)
                     /\ r.response.form_data # Missing
                     /\ r.response.form_data[1]["notes"] = None
                     /\ so = "ok" => Len(r.booked) = 1 /\ r.booked[1].notes = None
                ELSE r.calls.sink = "no" /\ r.booked = <<>>

C26_BookingDoesNotWaitForNotes == C26_NotesNotAskedYet /\ C26_BooksOnDateTurn

\* the date answer was given and the booking written, notes never asked
C26_Witness ==
    /\ Len(bookings) = 1
    /\ bookings[1].notes = None
    /\ calls.sink = "ok"
    /\ response.form_complete = Present(TRUE)
    /\ collected["preferred_datetime"] # None
    /\ collected["notes"] = None

C28_FourDigitYearKept ==
    output # <<>> =>
        /\ input[1] \in {<<"0","3","/","0","5","/","2","0","2","4">>,
                          <<"0","3","-","0","5","-","2","0","2","4">>,
                          <<"2","0","2","4","/","0","3","/","0","5">>,
                          <<"2","0","2","4","-","0","3","-","0","5">>}
               => output = StrftimeYmd(<<2024, 3, 5>>)
        /\ input[1] \in {<<"0","3","/","0","5">>, <<"0","3","/","0","5","/","2","4">>}
               /\ input[2][1] = 2024
               => output = IF DateBefore(<<2024, 3, 5>>, input[2])
                           THEN StrftimeYmd(<<2025, 3, 5>>)
                           ELSE StrftimeYmd(<<2024, 3, 5>>)

\* C29: every invocation of the booking sink is preceded, since the previous
\* invocation (or the creation or reset of the engine's form), by an accepted
\* answer for each of name, phone, email and preferred_datetime: a turn that
\* invokes the sink never starts with the four required values already held
\* from an earlier completed form.
C29_SinkStep ==
    (\E message \in Messages : Chat(message)) /\ calls'.sink # "no" => ~is_complete(Form)

C29_NoCarriedOverBooking == [][C29_SinkStep]_vars

\* C30: in a single chat turn at most one of the QA engine and the booking
\* sink is invoked; the QA engine is not invoked on a turn that begins with
\* the form in progress nor on a turn that starts the form; the sink is
\* invoked only on a turn given to the form after which is_complete() holds.
C30_OneCollaboratorPerTurn ==
    \A message \in Messages, llm \in LLMOutcomes, qo \in QAOutcomes, so \in SinkOutcomes :
        \A r \in {chat(Eng, message, llm, qo, so, 0, 0)} :
            /\ r.calls.qa = "no" \/ r.calls.sink = "no"
            /\ in_form => r.calls.qa = "no"
            /\ r.calls.start = 1 => r.calls.qa = "no" /\ r.calls.sink = "no"
            /\ r.calls.sink # "no" =>
                   /\ in_form
                   /\ r.calls.handle_input = 1
                   /\ is_complete(r.eng.form)
            /\ r.booked # <<>> => r.calls.sink = "ok"

\* a question was answered by the QA engine while the form held a completed
\* booking: the sink was not invoked again
C30_Witness ==
    /\ calls.qa = "ok"
    /\ calls.sink = "no"
    /\ is_complete(Form)
    /\ ~in_form

====
